---- MODULE Spec2Model ----
(***************************************************************************)
(* The vote ledger of main.py: Block, Blockchain and the callers of the    *)
(* Blockchain's operations.                                                *)
(*                                                                         *)
(* Python lists and Block objects are mutable and shared by reference, so  *)
(* both live in heaps: lists[r] is the content of list object r and        *)
(* blocks[b] the fields of Block object b.  A block's `transactions` field *)
(* holds a list reference, exactly as in the code, where mine() hands      *)
(* self.pending_votes itself to the new Block.                             *)
(*                                                                         *)
(* SHA-256 is modelled as a collision-free function: a digest carries the  *)
(* canonical string it was computed from, together with the number of      *)
(* leading '0' characters of its hex form, which is a fixed pseudo-random  *)
(* function of that string.                                                *)
(***************************************************************************)
EXTENDS Integers, Sequences, FiniteSets, TLC

\* ------------------------------------------------------------- bounds
\* Block objects ever constructed (genesis, mined blocks, callers' candidates).
MaxBlocks == 3
\* Block objects constructed by callers of add_block.
MaxCandidates == 1
\* The ledger's difficulty is drawn from 0..MaxDifficulty at construction.
MaxDifficulty == 2
\* The values time.time() returns.
Clock == {1, 2}

Voters == {"v1", "v2"}
Candidates == {"Alice", "Bob"}

\* Python's None in the position of a timestamp argument.
None == -1

VARIABLES
    lists,          \* heap of list objects: lists[r] is a sequence of votes
    blocks,         \* heap of Block objects: blocks[b] is a record of its fields
    chain,          \* self.chain: sequence of Block references
    pending_votes,  \* self.pending_votes: a list reference
    voted_voters,   \* self.voted_voters
    difficulty,     \* self.difficulty
    candidates,     \* the Block objects constructed by callers of add_block
    last,           \* the last call made on the ledger and what it returned
    tampered,       \* the field of a chain block overwritten from outside, if any
    pc,             \* position of the running mine() call ("idle" when none runs)
    m_last,         \* mine's local last_block (a Block reference, 0 when unset)
    m_new,          \* mine's local new_block  (a Block reference, 0 when unset)
    m_proof,        \* mine's local proof
    m_entry         \* the votes pending_votes held when the running mine() was called

vars == <<lists, blocks, chain, pending_votes, voted_voters, difficulty,
          candidates, last, tampered, pc, m_last, m_new, m_proof, m_entry>>

ledger == <<lists, blocks, chain, pending_votes, voted_voters, difficulty>>
mine_locals == <<pc, m_last, m_new, m_proof, m_entry>>

\* ------------------------------------------------------------- hashing
\* The one-character string "0" (previous_hash of the genesis block): it is no
\* digest of anything and starts with exactly one '0'.
Str0 == [zeros |-> 1, of |-> <<>>]

Ord(s) ==
    CASE s = "v1" -> 1 [] s = "v2" -> 2 [] s = "v3" -> 3
      [] s = "Alice" -> 1 [] s = "Bob" -> 2 [] OTHER -> 0

RECURSIVE VotesCode(_)
VotesCode(txs) ==
    IF txs = <<>> THEN 0
    ELSE LET n == Len(txs)
         IN  n * (2 * Ord(txs[n].voter_id) + Ord(txs[n].candidate))
             + VotesCode(SubSeq(txs, 1, n - 1))

\* block_string is <<index, nonce, previous_hash, timestamp, transactions>>.
Mix(s) == s[1] + s[2] + s[3].zeros + s[4] + VotesCode(s[5])

\* Number of leading '0' characters of the hex digest: every value of
\* 0..MaxDifficulty occurs, so the proof-of-work search ends for every difficulty.
LeadingZeros(s) ==
    LET m == Mix(s) % (MaxDifficulty + 2)
    IN  IF m <= MaxDifficulty THEN MaxDifficulty - m ELSE 0

sha256(s) == [zeros |-> LeadingZeros(s), of |-> s]

\* str.startswith('0' * d)
startswith_zeros(h, d) == h.zeros >= d

\* json.dumps(..., sort_keys=True): the fields in the order of their sorted keys,
\* the votes in list order.
block_string(blk, L) ==
    <<blk.index, blk.nonce, blk.previous_hash, blk.timestamp, L[blk.transactions]>>

compute_hash(blk, L) == sha256(block_string(blk, L))

\* ------------------------------------------------------------- Block
\* `timestamp or time.time()`: a falsy timestamp is replaced by the clock.
timestamp_or_now(timestamp, now) ==
    IF timestamp = None \/ timestamp = 0 THEN now ELSE timestamp

Block(index, transactions, previous_hash, timestamp, now, L) ==
    LET b0 == [index |-> index,
               transactions |-> transactions,
               timestamp |-> timestamp_or_now(timestamp, now),
               previous_hash |-> previous_hash,
               nonce |-> 0,
               hash |-> Str0]
    IN  [b0 EXCEPT !.hash = compute_hash(b0, L)]

Vote(v, c) == [voter_id |-> v, candidate |-> c]

\* ------------------------------------------------------------- Blockchain
\* A call on the ledger: its name, what it returned (ok: True, or a block) and,
\* for mine, the block returned (0 for None).
Call(op, ok, blk) == [op |-> op, ok |-> ok, blk |-> blk]

last_block == chain[Len(chain)]

votes_of(b) == lists[blocks[b].transactions]
pending == lists[pending_votes]

\* Variant of create_genesis_block: the genesis block numbered 1.
create_genesis_block_from_one(g, now, L) == Block(1, g, Str0, None, now, L)

\* Block(0, [], "0"): the new empty list is list g of heap L.
create_genesis_block(g, now, L) == Block(0, g, Str0, None, now, L)

Init ==
    /\ difficulty \in 0..MaxDifficulty
    /\ \E now \in Clock :
          \* self.pending_votes = [] is list 1, the genesis block's [] is list 2
          /\ lists = << <<>>, <<>> >>
          /\ blocks = << create_genesis_block(2, now, << <<>>, <<>> >>) >>
    /\ pending_votes = 1
    /\ chain = <<1>>
    /\ voted_voters = {}
    /\ candidates = {}
    /\ last = Call("init", TRUE, 0)
    /\ tampered = [pos |-> 0, field |-> ""]
    /\ pc = "idle"
    /\ m_last = 0
    /\ m_new = 0
    /\ m_proof = Str0
    /\ m_entry = <<>>

\* Block objects not yet constructed; a running mine() that has not built its
\* block yet will construct one.
free_blocks == MaxBlocks - Len(blocks) - (IF pc = "build" THEN 1 ELSE 0)

\* ------------------------------------------------------------- add_vote
\* Variant of already_voted: only the votes still pending are looked at.
already_voted_pending_only(voter_id) ==
    \E k \in 1..Len(pending) : pending[k].voter_id = voter_id

already_voted(voter_id) == voter_id \in voted_voters

add_vote(voter_id, candidate) ==
    /\ IF already_voted(voter_id)
       THEN /\ last' = Call("add_vote", FALSE, 0)
            /\ UNCHANGED ledger
       ELSE /\ lists' = [lists EXCEPT ![pending_votes] =
                                        Append(@, Vote(voter_id, candidate))]
            /\ voted_voters' = voted_voters \cup {voter_id}
            /\ last' = Call("add_vote", TRUE, 0)
            /\ UNCHANGED <<blocks, chain, pending_votes, difficulty>>
    /\ UNCHANGED <<candidates, tampered, mine_locals>>

\* ------------------------------------------------------------- proof_of_work
RECURSIVE pow_search(_, _, _)
pow_search(blk, L, d) ==
    IF startswith_zeros(compute_hash(blk, L), d)
    THEN blk
    ELSE pow_search([blk EXCEPT !.nonce = @ + 1], L, d)

\* Variant of proof_of_work: the search starts from the nonce the block has.
proof_of_work_no_reset(blk, L, d) == pow_search(blk, L, d)

\* The block as the search leaves it; the value returned is its compute_hash.
proof_of_work(blk, L, d) == pow_search([blk EXCEPT !.nonce = 0], L, d)

\* ------------------------------------------------------------- add_block
\* Variant of add_block_accepts: the link to the last block is not verified.
add_block_accepts_no_link(blk, proof, tip, L, d) ==
    startswith_zeros(proof, d) /\ proof = compute_hash(blk, L)

\* Variant of add_block_accepts: the difficulty target is not verified.
add_block_accepts_no_difficulty(blk, proof, tip, L, d) ==
    /\ blk.previous_hash = tip.hash
    /\ proof = compute_hash(blk, L)

add_block_accepts(blk, proof, tip, L, d) ==
    /\ blk.previous_hash = tip.hash
    /\ startswith_zeros(proof, d) /\ proof = compute_hash(blk, L)

\* Variant of add_block: an accepted block takes the place of the last block.
add_block_replacing(b, proof) ==
    /\ IF add_block_accepts(blocks[b], proof, blocks[last_block], lists, difficulty)
       THEN /\ blocks' = [blocks EXCEPT ![b].hash = proof]
            /\ chain' = [chain EXCEPT ![Len(chain)] = b]
            /\ last' = Call("add_block", TRUE, 0)
            /\ UNCHANGED <<lists, pending_votes, voted_voters, difficulty>>
       ELSE /\ last' = Call("add_block", FALSE, 0)
            /\ UNCHANGED ledger
    /\ UNCHANGED <<candidates, tampered, mine_locals>>

\* if previous_hash != block.previous_hash or not valid proof: return False
\* block.hash = proof;  self.chain.append(block);  return True
add_block(b, proof) ==
    /\ IF add_block_accepts(blocks[b], proof, blocks[last_block], lists, difficulty)
       THEN /\ blocks' = [blocks EXCEPT ![b].hash = proof]
            /\ chain' = Append(chain, b)
            /\ last' = Call("add_block", TRUE, 0)
            /\ UNCHANGED <<lists, pending_votes, voted_voters, difficulty>>
       ELSE /\ last' = Call("add_block", FALSE, 0)
            /\ UNCHANGED ledger
    /\ UNCHANGED <<candidates, tampered, mine_locals>>

\* ------------------------------------------------------------- mine
\* Variant of no_pending: mine() does not look whether votes are pending.
no_pending_never == FALSE

no_pending == pending = <<>>

\* Variant of mine_new_block: the candidate does not carry the hash of the last
\* block.
mine_new_block_unlinked(tip, now) ==
    Block(tip.index + 1, pending_votes, Str0, None, now, lists)

\* Block(index=last_block.index + 1, transactions=self.pending_votes,
\*       previous_hash=last_block.hash)
mine_new_block(tip, now) ==
    Block(tip.index + 1, pending_votes, tip.hash, None, now, lists)

\* Variant of mine: pending_votes is not cleared after the block is added.
mine_without_clear ==
    /\ IF no_pending
       THEN /\ last' = Call("mine", FALSE, 0)
            /\ UNCHANGED ledger
       ELSE \E now \in Clock :
            /\ free_blocks > 0
            /\ LET new_block == Len(blocks) + 1
                   sealed == proof_of_work(mine_new_block(blocks[last_block], now),
                                           lists, difficulty)
                   proof == compute_hash(sealed, lists)
               IN  IF add_block_accepts(sealed, proof, blocks[last_block],
                                        lists, difficulty)
                   THEN /\ blocks' = Append(blocks, [sealed EXCEPT !.hash = proof])
                        /\ chain' = Append(chain, new_block)
                        /\ last' = Call("mine", TRUE, new_block)
                        /\ UNCHANGED <<lists, pending_votes, voted_voters,
                                       difficulty>>
                   ELSE /\ blocks' = Append(blocks, sealed)
                        /\ last' = Call("mine", FALSE, 0)
                        /\ UNCHANGED <<lists, chain, pending_votes, voted_voters,
                                       difficulty>>
    /\ UNCHANGED <<candidates, tampered, mine_locals>>

\* mine() run from call to return with nothing else in between.
mine ==
    /\ IF no_pending
       THEN /\ last' = Call("mine", FALSE, 0)
            /\ UNCHANGED ledger
       ELSE \E now \in Clock :
            /\ free_blocks > 0
            /\ LET new_block == Len(blocks) + 1
                   sealed == proof_of_work(mine_new_block(blocks[last_block], now),
                                           lists, difficulty)
                   proof == compute_hash(sealed, lists)
               IN  IF add_block_accepts(sealed, proof, blocks[last_block],
                                        lists, difficulty)
                   THEN /\ blocks' = Append(blocks, [sealed EXCEPT !.hash = proof])
                        /\ chain' = Append(chain, new_block)
                        /\ lists' = Append(lists, <<>>)
                        /\ pending_votes' = Len(lists) + 1
                        /\ last' = Call("mine", TRUE, new_block)
                        /\ UNCHANGED <<voted_voters, difficulty>>
                   ELSE /\ blocks' = Append(blocks, sealed)
                        /\ last' = Call("mine", FALSE, 0)
                        /\ UNCHANGED <<lists, chain, pending_votes, voted_voters,
                                       difficulty>>
    /\ UNCHANGED <<candidates, tampered, mine_locals>>

\* ------------------------------------------------------------- is_chain_valid
\* Variant of chain_valid_from: the stored hash is not compared with the digest
\* of the block's fields.
RECURSIVE chain_valid_from_no_recompute(_, _, _, _, _)
chain_valid_from_no_recompute(i, ch, B, L, d) ==
    IF i > Len(ch) THEN TRUE
    ELSE LET curr == B[ch[i]]
             prev == B[ch[i - 1]]
         IN  IF curr.previous_hash # prev.hash THEN FALSE
             ELSE IF ~startswith_zeros(curr.hash, d) THEN FALSE
             ELSE chain_valid_from_no_recompute(i + 1, ch, B, L, d)

RECURSIVE chain_valid_from(_, _, _, _, _)
chain_valid_from(i, ch, B, L, d) ==
    IF i > Len(ch) THEN TRUE
    ELSE LET curr == B[ch[i]]
             prev == B[ch[i - 1]]
         IN  IF curr.previous_hash # prev.hash THEN FALSE
             ELSE IF compute_hash(curr, L) # curr.hash THEN FALSE
             ELSE IF ~startswith_zeros(curr.hash, d) THEN FALSE
             ELSE chain_valid_from(i + 1, ch, B, L, d)

\* Variant of is_chain_valid: the genesis block's stored hash is checked against
\* its fields and against the difficulty target as well.
is_chain_valid_with_genesis ==
    /\ compute_hash(blocks[chain[1]], lists) = blocks[chain[1]].hash
    /\ startswith_zeros(blocks[chain[1]].hash, difficulty)
    /\ chain_valid_from(2, chain, blocks, lists, difficulty)

\* for i in range(1, len(self.chain)): the loop starts at the second block.
is_chain_valid == chain_valid_from(2, chain, blocks, lists, difficulty)

call_is_chain_valid ==
    /\ last' = Call("is_chain_valid", is_chain_valid, 0)
    /\ UNCHANGED <<ledger, candidates, tampered, mine_locals>>

\* ------------------------------------------------------------- callers
\* A caller of add_block builds its own candidate: Block(index, votes,
\* previous_hash, timestamp) over a list of its own, ...
new_candidate(index, votes, previous_hash, timestamp, now) ==
    /\ free_blocks > 0
    /\ Cardinality(candidates) < MaxCandidates
    /\ lists' = Append(lists, votes)
    /\ blocks' = Append(blocks, Block(index, Len(lists) + 1, previous_hash,
                                      timestamp, now, lists'))
    /\ candidates' = candidates \cup {Len(blocks) + 1}
    /\ UNCHANGED <<chain, pending_votes, voted_voters, difficulty, last,
                   tampered, mine_locals>>

\* ... seals it with proof_of_work while it is not part of the chain, ...
InChain(b) == \E i \in 1..Len(chain) : chain[i] = b

call_proof_of_work(b) ==
    /\ ~InChain(b)
    /\ blocks' = [blocks EXCEPT ![b] = proof_of_work(@, lists, difficulty)]
    /\ blocks' # blocks
    /\ UNCHANGED <<lists, chain, pending_votes, voted_voters, difficulty,
                   candidates, last, tampered, mine_locals>>

\* ... and submits it with the proof the search returned (the digest of the block
\* as it stands), with the hash stored at construction, or with the tip's hash.
CallerProofs(b) ==
    {compute_hash(blocks[b], lists), blocks[b].hash, blocks[last_block].hash}

\* What callers pass to Block(): <<index, votes>>, a timestamp.
CallerBlocks ==
    {<<blocks[last_block].index + 1, <<Vote("v1", "Alice")>> >>,
     <<blocks[last_block].index + 2, <<>> >>}
CallerPrevious == {blocks[last_block].hash}
CallerTimestamps == {1}

caller_new_candidate ==
    \E iv \in CallerBlocks, p \in CallerPrevious, t \in CallerTimestamps,
       now \in Clock :
       new_candidate(iv[1], iv[2], p, t, now)

caller_proof_of_work == \E b \in candidates : call_proof_of_work(b)

caller_add_block ==
    \E b \in candidates : \E proof \in CallerProofs(b) : add_block(b, proof)

caller_add_vote == \E v \in Voters, c \in Candidates : add_vote(v, c)

\* ------------------------------------------------------------- sequential use
Idle == pc = "idle" /\ tampered.pos = 0

Next ==
    \/ Idle /\ caller_add_vote
    \/ Idle /\ mine
    \/ Idle /\ call_is_chain_valid
    \/ Idle /\ caller_new_candidate
    \/ Idle /\ caller_proof_of_work
    \/ Idle /\ caller_add_block

Spec == Init /\ [][Next]_vars

\* ------------------------------------------------------------- tampering
\* One field of the block at chain position i is overwritten with another value of
\* its type, from outside the ledger's operations.
overwritten(i, field, blk) ==
    /\ tampered.pos = 0
    /\ pc = "idle"
    /\ blk # blocks[chain[i]]
    /\ blocks' = [blocks EXCEPT ![chain[i]] = blk]
    /\ tampered' = [pos |-> i, field |-> field]
    /\ UNCHANGED <<chain, pending_votes, voted_voters, difficulty, candidates,
                   last, mine_locals>>

TamperDigests ==
    {Str0} \cup {blocks[b].hash : b \in 1..Len(blocks)}
           \cup {compute_hash([blocks[b] EXCEPT !.nonce = @ + 1], lists) :
                    b \in 1..Len(blocks)}
TamperVotes == {<<>>, <<Vote("v1", "Alice")>>, <<Vote("v2", "Bob"), Vote("v1", "Alice")>>}

tamper_index ==
    \E i \in 1..Len(chain), v \in 0..(MaxBlocks + 1) :
       overwritten(i, "index", [blocks[chain[i]] EXCEPT !.index = v])
       /\ UNCHANGED lists

tamper_timestamp ==
    \E i \in 1..Len(chain), v \in Clock \cup {3} :
       overwritten(i, "timestamp", [blocks[chain[i]] EXCEPT !.timestamp = v])
       /\ UNCHANGED lists

tamper_nonce ==
    \E i \in 1..Len(chain), v \in 0..(MaxDifficulty + 2) :
       overwritten(i, "nonce", [blocks[chain[i]] EXCEPT !.nonce = v])
       /\ UNCHANGED lists

tamper_previous_hash ==
    \E i \in 1..Len(chain), v \in TamperDigests :
       overwritten(i, "previous_hash", [blocks[chain[i]] EXCEPT !.previous_hash = v])
       /\ UNCHANGED lists

tamper_hash ==
    \E i \in 1..Len(chain), v \in TamperDigests :
       overwritten(i, "hash", [blocks[chain[i]] EXCEPT !.hash = v])
       /\ UNCHANGED lists

\* block.transactions = <another list of votes>
tamper_votes ==
    \E i \in 1..Len(chain), vs \in TamperVotes :
       /\ vs # votes_of(chain[i])
       /\ lists' = Append(lists, vs)
       /\ overwritten(i, "votes",
                      [blocks[chain[i]] EXCEPT !.transactions = Len(lists) + 1])

\* The ledger builds a chain with add_vote and mine, one field of one block is
\* overwritten, and is_chain_valid is called.
NextTamper ==
    \/ Idle /\ caller_add_vote
    \/ Idle /\ mine
    \/ tamper_index
    \/ tamper_votes
    \/ tamper_timestamp
    \/ tamper_previous_hash
    \/ tamper_nonce
    \/ tamper_hash
    \/ tampered.pos # 0 /\ call_is_chain_valid

SpecTamper == Init /\ [][NextTamper]_vars

\* ------------------------------------------------------------- mine, step by step
\* if not self.pending_votes: return None;  last_block = self.last_block
mine_call ==
    /\ pc = "idle"
    /\ IF no_pending
       THEN /\ last' = Call("mine", FALSE, 0)
            /\ UNCHANGED mine_locals
       ELSE /\ free_blocks > 0
            /\ pc' = "build"
            /\ m_last' = last_block
            /\ m_entry' = pending
            /\ UNCHANGED <<m_new, m_proof, last>>
    /\ UNCHANGED <<ledger, candidates, tampered>>

\* new_block = Block(index=last_block.index + 1, transactions=self.pending_votes,
\*                   previous_hash=last_block.hash)
mine_build ==
    /\ pc = "build"
    /\ \E now \in Clock :
          blocks' = Append(blocks, mine_new_block(blocks[m_last], now))
    /\ m_new' = Len(blocks) + 1
    /\ pc' = "search"
    /\ UNCHANGED <<lists, chain, pending_votes, voted_voters, difficulty,
                   candidates, last, tampered, m_last, m_proof, m_entry>>

\* proof = self.proof_of_work(new_block)
mine_search ==
    /\ pc = "search"
    /\ blocks' = [blocks EXCEPT ![m_new] = proof_of_work(@, lists, difficulty)]
    /\ m_proof' = compute_hash(blocks'[m_new], lists)
    /\ pc' = "admit"
    /\ UNCHANGED <<lists, chain, pending_votes, voted_voters, difficulty,
                   candidates, last, tampered, m_last, m_new, m_entry>>

\* Variant of mine_admit: pending_votes is cleared whether or not the block was
\* added.
mine_admit_clearing ==
    /\ pc = "admit"
    /\ IF add_block_accepts(blocks[m_new], m_proof, blocks[last_block], lists,
                            difficulty)
       THEN /\ blocks' = [blocks EXCEPT ![m_new].hash = m_proof]
            /\ chain' = Append(chain, m_new)
            /\ pc' = "clear"
            /\ UNCHANGED <<lists, pending_votes, last, m_last, m_new, m_proof,
                           m_entry>>
       ELSE /\ pc' = "idle"
            /\ lists' = Append(lists, <<>>)
            /\ pending_votes' = Len(lists) + 1
            /\ last' = Call("mine", FALSE, 0)
            /\ m_last' = 0
            /\ m_new' = 0
            /\ m_proof' = Str0
            /\ m_entry' = <<>>
            /\ UNCHANGED <<blocks, chain>>
    /\ UNCHANGED <<voted_voters, difficulty, candidates, tampered>>

\* added = self.add_block(new_block, proof);  if not added: return None
mine_admit ==
    /\ pc = "admit"
    /\ IF add_block_accepts(blocks[m_new], m_proof, blocks[last_block], lists,
                            difficulty)
       THEN /\ blocks' = [blocks EXCEPT ![m_new].hash = m_proof]
            /\ chain' = Append(chain, m_new)
            /\ pc' = "clear"
            /\ UNCHANGED <<last, m_last, m_new, m_proof, m_entry>>
       ELSE /\ pc' = "idle"
            /\ last' = Call("mine", FALSE, 0)
            /\ m_last' = 0
            /\ m_new' = 0
            /\ m_proof' = Str0
            /\ m_entry' = <<>>
            /\ UNCHANGED <<blocks, chain>>
    /\ UNCHANGED <<lists, pending_votes, voted_voters, difficulty, candidates,
                   tampered>>

\* Variant of mine_clear: mine() returns the block without giving pending_votes
\* a new list.
mine_clear_keeping ==
    /\ pc = "clear"
    /\ last' = Call("mine", TRUE, m_new)
    /\ pc' = "idle"
    /\ m_last' = 0
    /\ m_new' = 0
    /\ m_proof' = Str0
    /\ m_entry' = <<>>
    /\ UNCHANGED <<lists, pending_votes, blocks, chain, voted_voters, difficulty,
                   candidates, tampered>>

\* self.pending_votes = [];  return new_block
mine_clear ==
    /\ pc = "clear"
    /\ lists' = Append(lists, <<>>)
    /\ pending_votes' = Len(lists) + 1
    /\ last' = Call("mine", TRUE, m_new)
    /\ pc' = "idle"
    /\ m_last' = 0
    /\ m_new' = 0
    /\ m_proof' = Str0
    /\ m_entry' = <<>>
    /\ UNCHANGED <<blocks, chain, voted_voters, difficulty, candidates, tampered>>

\* A mine() call whose steps interleave with the calls of other callers.
NextRace ==
    \/ caller_add_vote
    \/ mine_call
    \/ mine_build
    \/ mine_search
    \/ mine_admit
    \/ mine_clear
    \/ caller_new_candidate
    \/ caller_proof_of_work
    \/ caller_add_block

SpecRace == Init /\ [][NextRace]_vars

\* A mine() call during which other callers build, seal and submit blocks, while
\* votes are cast between mine() calls only.
NextStale ==
    \/ pc = "idle" /\ caller_add_vote
    \/ mine_call
    \/ mine_build
    \/ mine_search
    \/ mine_admit
    \/ mine_clear
    \/ caller_new_candidate
    \/ caller_proof_of_work
    \/ caller_add_block

SpecStale == Init /\ [][NextStale]_vars

\* A mine() call whose steps interleave with add_vote calls of other threads; no
\* caller submits blocks of its own.
NextVoteRace ==
    \/ caller_add_vote
    \/ mine_call
    \/ mine_build
    \/ mine_search
    \/ mine_admit
    \/ mine_clear

SpecVoteRace == Init /\ [][NextVoteRace]_vars

\* Sequential use, mine() seen step by step: every other operation runs between
\* mine() calls only, and a mine() call that has started runs to its return.
NextSeq ==
    \/ pc = "idle" /\ caller_add_vote
    \/ mine_call
    \/ mine_build
    \/ mine_search
    \/ mine_admit
    \/ mine_clear
    \/ pc = "idle" /\ caller_new_candidate
    \/ pc = "idle" /\ caller_proof_of_work
    \/ pc = "idle" /\ caller_add_block

SpecSeq ==
    /\ Init /\ [][NextSeq]_vars
    /\ WF_vars(mine_build) /\ WF_vars(mine_search)
    /\ WF_vars(mine_admit) /\ WF_vars(mine_clear)

\* ------------------------------------------------------------- proof_of_work alone
\* proof_of_work applied to a block of any content and any nonce: the ledger as
\* constructed, and one block of a caller.
PowIndexes == {1, 2}
PowVotes == {<<>>, <<Vote("v1", "Alice")>>, <<Vote("v2", "Bob"), Vote("v1", "Alice")>>}
PowNonces == 0..(MaxDifficulty + 2)

InitPow ==
    /\ difficulty \in 0..MaxDifficulty
    /\ \E now \in Clock, i \in PowIndexes, vs \in PowVotes, t \in Clock,
          n \in PowNonces, fresh \in BOOLEAN :
          LET L == << <<>>, <<>>, vs >>
              genesis == create_genesis_block(2, now, L)
              built == Block(i, 3, IF fresh THEN genesis.hash ELSE Str0, t, now, L)
          IN  /\ lists = L
              /\ blocks = <<genesis, [built EXCEPT !.nonce = n]>>
    /\ pending_votes = 1
    /\ chain = <<1>>
    /\ voted_voters = {}
    /\ candidates = {2}
    /\ last = Call("init", TRUE, 0)
    /\ tampered = [pos |-> 0, field |-> ""]
    /\ pc = "idle"
    /\ m_last = 0
    /\ m_new = 0
    /\ m_proof = Str0
    /\ m_entry = <<>>

\* proof = self.proof_of_work(block)
pow_call ==
    \E b \in candidates :
       /\ blocks' = [blocks EXCEPT ![b] = proof_of_work(@, lists, difficulty)]
       /\ m_proof' = compute_hash(blocks'[b], lists)
       /\ last' = Call("proof_of_work", TRUE, b)
       /\ UNCHANGED <<lists, chain, pending_votes, voted_voters, difficulty,
                      candidates, tampered, pc, m_last, m_new, m_entry>>

NextPow == pow_call

SpecPow == InitPow /\ [][NextPow]_vars

\* ------------------------------------------------------------- Block alone
\* Block(index, transactions, previous_hash, timestamp) called by a caller with
\* any index, votes and previous_hash, and with a timestamp or without one.
BlockIndexes == {0, 1, 2}
BlockTimestamps == {None, 0} \cup Clock

block_call ==
    \E i \in BlockIndexes, vs \in PowVotes, p \in {Str0, blocks[last_block].hash},
       t \in BlockTimestamps, now \in Clock :
       new_candidate(i, vs, p, t, now)

NextBlock == block_call

SpecBlock == Init /\ [][NextBlock]_vars

\* ------------------------------------------------------------- properties
Positions == 1..Len(chain)

\* How many votes of the sequence vs are cast by voter v.
CountIn(v, vs) == Cardinality({k \in 1..Len(vs) : vs[k].voter_id = v})

RECURSIVE CountInChain(_, _)
CountInChain(v, i) ==
    IF i = 0 THEN 0 ELSE CountIn(v, votes_of(chain[i])) + CountInChain(v, i - 1)

\* C1: a voter_id already in voted_voters is turned away by add_vote, which then
\* returns False and leaves pending_votes, voted_voters and the chain as they
\* were; an accepted voter_id is in voted_voters from then on, so once add_vote
\* has returned True for a voter it returns False for that voter ever after,
\* whether the vote is still pending or has been mined.
C1_Dedup ==
    [][ /\ \A v \in Voters, c \in Candidates :
             add_vote(v, c) =>
                /\ v \in voted_voters =>
                      /\ last'.ok = FALSE
                      /\ UNCHANGED <<lists, blocks, chain, pending_votes, voted_voters>>
                /\ last'.ok = TRUE => v \in voted_voters'
        /\ voted_voters \subseteq voted_voters' ]_vars

\* A second vote of a voter whose first vote is already mined has just been refused.
C1_Witness ==
    /\ last = Call("add_vote", FALSE, 0)
    /\ pending = <<>>
    /\ candidates = {}
    /\ \E i \in Positions : CountIn("v1", votes_of(chain[i])) = 1

\* C2: each voter_id occurs in at most one vote, counted over pending_votes and the
\* votes of all blocks of the chain.
C2_VoterUnique ==
    \A v \in Voters : CountIn(v, pending) + CountInChain(v, Len(chain)) <= 1

\* C3: every block after the genesis block links to the hash of its predecessor,
\* stores the digest of its own fields, and that digest starts with `difficulty`
\* zeros; is_chain_valid() returns True.
C3_ChainValid ==
    /\ \A i \in Positions \ {1} :
          /\ blocks[chain[i]].previous_hash = blocks[chain[i - 1]].hash
          /\ blocks[chain[i]].hash = compute_hash(blocks[chain[i]], lists)
          /\ blocks[chain[i]].hash.zeros >= difficulty
    /\ is_chain_valid

\* A chain of three blocks holding a mined block and a caller's block, at the
\* highest difficulty.
C3_Witness ==
    /\ Len(chain) = 3
    /\ difficulty = MaxDifficulty
    /\ \E i \in Positions : chain[i] \in candidates
    /\ \E i \in Positions \ {1} : chain[i] \notin candidates

\* C4: when mine() returns a block, the block's votes are the votes pending_votes
\* held before the call, in the same order, the block is the new last element of
\* the chain, and pending_votes is empty.
C4_Conservation ==
    [][ (mine /\ last'.blk # 0) =>
           /\ lists'[blocks'[last'.blk].transactions] = pending
           /\ chain' = Append(chain, last'.blk)
           /\ lists'[pending_votes'] = <<>> ]_vars

\* mine() has just returned a block of two votes.
C4_Witness ==
    /\ last.op = "mine"
    /\ last.blk # 0
    /\ Len(votes_of(last.blk)) = 2
    /\ last_block = last.blk

\* C5: mine() called with no pending votes returns None and leaves the chain,
\* the blocks, pending_votes and voted_voters as they were.
C5_MineEmpty ==
    [][ (mine /\ pending = <<>>) =>
           /\ last' = Call("mine", FALSE, 0)
           /\ UNCHANGED <<lists, blocks, chain, pending_votes, voted_voters>> ]_vars

\* mine() has just returned None on a ledger that mined a block before.
C5_Witness ==
    /\ last = Call("mine", FALSE, 0)
    /\ pending = <<>>
    /\ Len(chain) >= 2

\* C6: add_block(block, proof) returns True exactly when block.previous_hash is the
\* hash of the last block, proof starts with `difficulty` zeros and proof is the
\* digest of the block's fields; then the block is the new last block and stores
\* proof as its hash; otherwise the chain, pending_votes, voted_voters and every
\* block (the stored hash of the submitted one included) are unchanged.
C6_Admission ==
    [][ \A b \in candidates : \A p \in CallerProofs(b) :
          add_block(b, p) =>
             /\ last'.ok <=>
                   /\ blocks[b].previous_hash = blocks[chain[Len(chain)]].hash
                   /\ p.zeros >= difficulty
                   /\ p = sha256(<<blocks[b].index, blocks[b].nonce,
                                   blocks[b].previous_hash, blocks[b].timestamp,
                                   votes_of(b)>>)
             /\ last'.ok =>
                   /\ chain' = Append(chain, b)
                   /\ blocks' = [blocks EXCEPT ![b].hash = p]
                   /\ UNCHANGED <<lists, pending_votes, voted_voters>>
             /\ ~last'.ok =>
                   UNCHANGED <<lists, blocks, chain, pending_votes, voted_voters>> ]_vars

\* A caller's block has just been admitted.
C6_Witness ==
    /\ last = Call("add_block", TRUE, 0)
    /\ last_block \in candidates
    /\ blocks[last_block].hash.zeros >= difficulty
    /\ difficulty > 0

\* C7: after one field of a block other than the genesis block was overwritten
\* with a different value, is_chain_valid() returns False.
C7_TamperDetected ==
    tampered.pos > 1 =>
        /\ ~is_chain_valid
        /\ last.op = "is_chain_valid" => last.ok = FALSE

\* The stored hash of a block after the genesis block was overwritten and
\* is_chain_valid() has been called.
C7_Witness ==
    /\ tampered.pos > 1
    /\ tampered.field = "hash"
    /\ last.op = "is_chain_valid"

C9_IndexInv ==
    /\ blocks[chain[1]].index = 0
    /\ \A i \in Positions \ {1} :
          blocks[chain[i]].index = blocks[chain[i - 1]].index + 1

\* C10: the chain is never empty and its first block is the genesis block made at
\* construction: index 0, no votes, previous_hash "0", nonce 0, and the hash
\* stored at construction (no proof-of-work, whatever the difficulty).
C10_Genesis ==
    /\ Len(chain) >= 1
    /\ chain[1] = 1
    /\ blocks[1].index = 0
    /\ votes_of(1) = <<>>
    /\ blocks[1].previous_hash = Str0
    /\ blocks[1].nonce = 0
    /\ blocks[1].hash = compute_hash(blocks[1], lists)
    /\ blocks[1].timestamp \in Clock

\* A chain grown past a genesis block whose hash misses the difficulty target.
C10_Witness ==
    /\ Len(chain) >= 2
    /\ blocks[chain[1]].hash.zeros < difficulty

\* C11: a caller's block that carries the hash of a chain block which is no longer
\* the last one (its proof was found for an old tip) is turned away by add_block
\* whatever proof comes with it, and the chain stays as it was.
C11_StaleRejected ==
    [][ \A b \in candidates : \A p \in CallerProofs(b) :
          ( /\ add_block(b, p)
            /\ \E i \in 1..(Len(chain) - 1) :
                  blocks[b].previous_hash = blocks[chain[i]].hash ) =>
             /\ last'.ok = FALSE
             /\ chain' = chain
             /\ blocks' = blocks ]_vars

\* A sealed block built on the genesis block has just been refused, after a mined
\* block took the place behind the genesis block.
C11_Witness ==
    /\ last = Call("add_block", FALSE, 0)
    /\ Len(chain) = 2
    /\ \E b \in candidates :
          /\ ~InChain(b)
          /\ blocks[b].previous_hash = blocks[chain[1]].hash
          /\ compute_hash(blocks[b], lists).zeros >= difficulty

\* C12: proof_of_work leaves in block.nonce the smallest n >= 0 for which the
\* digest of the block with nonce n starts with `difficulty` zeros, whatever the
\* nonce was before, and returns that digest; block.hash and the other fields
\* keep their values; for difficulty 0 the nonce is 0.
C12_ProofOfWork ==
    [][ \A b \in candidates :
          (pow_call /\ last'.blk = b) =>
             LET old == blocks[b]
                 new == blocks'[b]
                 digest(n) == sha256(<<old.index, n, old.previous_hash,
                                       old.timestamp, votes_of(b)>>)
             IN  /\ digest(new.nonce).zeros >= difficulty
                 /\ \A k \in 0..(new.nonce - 1) : digest(k).zeros < difficulty
                 /\ m_proof' = digest(new.nonce)
                 /\ new = [old EXCEPT !.nonce = new.nonce]
                 /\ lists' = lists
                 /\ difficulty = 0 => new.nonce = 0 ]_vars

\* A search at the highest difficulty that had to leave nonce 0 behind.
C12_Witness ==
    /\ last = Call("proof_of_work", TRUE, 2)
    /\ difficulty = MaxDifficulty
    /\ blocks[2].nonce >= 2
    /\ m_proof = compute_hash(blocks[2], lists)
    /\ blocks[2].hash # m_proof

\* The voter_ids of a sequence of votes.
VotersIn(vs) == {vs[k].voter_id : k \in 1..Len(vs)}

\* C13: voted_voters is exactly the set of the voter_ids that occur in
\* pending_votes or in the votes of a block of the chain.
C13_VotedIds ==
    voted_voters =
        VotersIn(pending) \cup UNION {VotersIn(votes_of(chain[i])) : i \in Positions}

\* C14: is_chain_valid() never compares the genesis block's stored hash with its
\* fields or with the difficulty target: a chain of the genesis block alone is
\* valid at every difficulty; after a genesis field other than the stored hash was
\* overwritten is_chain_valid() still returns True; after the genesis block's
\* stored hash was overwritten on a chain of two blocks or more it returns False.
C14_GenesisExempt ==
    /\ Len(chain) = 1 => is_chain_valid
    /\ (tampered.pos = 1 /\ tampered.field # "hash") => is_chain_valid
    /\ (tampered.pos = 1 /\ tampered.field = "hash" /\ Len(chain) >= 2) =>
          ~is_chain_valid
    /\ (tampered.pos = 1 /\ last.op = "is_chain_valid") => last.ok = is_chain_valid

\* is_chain_valid() has returned True on a chain of two blocks or more whose
\* genesis block had its nonce overwritten, so that its stored hash is no longer
\* the digest of its fields, and misses the difficulty target.
C14_Witness ==
    /\ tampered = [pos |-> 1, field |-> "nonce"]
    /\ Len(chain) >= 2
    /\ last = Call("is_chain_valid", TRUE, 0)
    /\ blocks[chain[1]].hash # compute_hash(blocks[chain[1]], lists)
    /\ blocks[chain[1]].hash.zeros < difficulty

\* C15: Block(index, votes, previous_hash, timestamp) makes a block with nonce 0
\* whose stored hash is the digest of its fields as constructed; its timestamp is
\* the supplied timestamp for every supplied value, 0 included, and the clock only
\* when none is supplied.
C15_BlockNew ==
    [][ \A i \in BlockIndexes, vs \in PowVotes, t \in BlockTimestamps, now \in Clock :
          \A p \in {Str0, blocks[last_block].hash} :
             new_candidate(i, vs, p, t, now) =>
                LET b == blocks'[Len(blocks) + 1]
                IN  /\ b.index = i
                    /\ lists'[b.transactions] = vs
                    /\ b.previous_hash = p
                    /\ b.nonce = 0
                    /\ b.hash = sha256(<<b.index, 0, b.previous_hash, b.timestamp,
                                         lists'[b.transactions]>>)
                    /\ b.timestamp = IF t = None THEN now ELSE t ]_vars

\* C16: the votes recorded in a block are fixed once the block is built: no
\* add_vote changes the votes of any block (one that runs between the admission of
\* a mined block and the clearing of pending_votes included), and the stored hash
\* of every block admitted to the chain stays the digest of its fields.
C16_VotesFixed ==
    [][ /\ \A v \in Voters, c \in Candidates :
             add_vote(v, c) =>
                \A b \in 1..Len(blocks) :
                   lists'[blocks'[b].transactions] = lists[blocks[b].transactions]
        /\ \A i \in 2..Len(chain') :
             blocks'[chain'[i]].hash = compute_hash(blocks'[chain'[i]], lists') ]_vars

\* C17: with add_vote calls interleaved with the steps of a running mine(), once
\* mine() has returned every vote add_vote accepted is in pending_votes or in
\* exactly one block of the chain, never in neither and never in both; the voters
\* of the votes held are the voters add_vote accepted.
C17_NoVoteLost ==
    pc = "idle" =>
        /\ \A v \in voted_voters :
              CountIn(v, pending) + CountInChain(v, Len(chain)) = 1
        /\ \A v \in Voters \ voted_voters :
              CountIn(v, pending) + CountInChain(v, Len(chain)) = 0

\* mine() has returned a block of two votes, one of them cast between the block's
\* admission and the clearing of pending_votes: the block's stored hash is not the
\* digest of its fields any more.
C17_Witness ==
    /\ pc = "idle"
    /\ Len(chain) = 2
    /\ blocks[chain[2]].hash # compute_hash(blocks[chain[2]], lists)
    /\ Len(votes_of(chain[2])) = 2
    /\ last.op = "mine"
    /\ last.ok

\* C18: in sequential use a mine() call that finds votes pending goes on to build
\* its block, its admission never fails, and the call eventually returns the
\* block: the block is then the last of the chain, right behind the block that
\* was last at the call, and pending_votes is empty.
C18_MineSucceeds ==
    /\ [][ /\ (mine_call /\ pending # <<>>) => pc' = "build"
           /\ mine_admit => (pc' = "clear" /\ chain' = Append(chain, m_new))
           /\ mine_clear =>
                 /\ last' = Call("mine", TRUE, m_new)
                 /\ Len(chain') >= 2
                 /\ chain'[Len(chain')] = m_new
                 /\ chain'[Len(chain') - 1] = m_last
                 /\ lists'[pending_votes'] = <<>> ]_vars
    /\ (pc = "build") ~> (pc = "idle" /\ last.op = "mine" /\ last.ok /\ pending = <<>>)

\* mine() has returned a block, sealed at the highest difficulty with a nonce
\* above 0, on top of a block submitted by a caller.
C18_Witness ==
    /\ pc = "idle"
    /\ last.op = "mine"
    /\ last.ok
    /\ last.blk = last_block
    /\ Len(chain) = 3
    /\ chain[2] \in candidates
    /\ difficulty = MaxDifficulty
    /\ blocks[last_block].nonce > 0
    /\ pending = <<>>

\* C19: every operation leaves the chain as it was or appends one block at its
\* end; every block already in the chain keeps its place, its fields and its
\* votes; add_vote and is_chain_valid leave the chain as it was.
C19_AppendOnly ==
    [][ /\ \/ chain' = chain
           \/ \E b \in 1..Len(blocks') : chain' = Append(chain, b)
        /\ \A i \in 1..Len(chain) :
              /\ chain'[i] = chain[i]
              /\ blocks'[chain[i]] = blocks[chain[i]]
              /\ lists'[blocks'[chain[i]].transactions] = votes_of(chain[i])
        /\ \A v \in Voters, c \in Candidates : add_vote(v, c) => chain' = chain
        /\ call_is_chain_valid => chain' = chain ]_vars

\* A caller's block has just been appended behind a mined block that holds the
\* votes of both voters.
C19_Witness ==
    /\ last = Call("add_block", TRUE, 0)
    /\ Len(chain) = 3
    /\ chain[3] \in candidates
    /\ Len(votes_of(chain[2])) = 2
    /\ voted_voters = Voters

====
